---- MODULE Spec2Model ----
(***************************************************************************)
(* A model of send.py: scan a directory tree for log files, turn every     *)
(* non-blank line into a record, and send the records to Logstash over TCP *)
(* in batches, retrying the whole send until one attempt succeeds.         *)
(*                                                                         *)
(* A text is a sequence of one-character strings.  The program is          *)
(* single-threaded; an action is the code that runs from one blocking call *)
(* (a file read, create_connection, sendall, sleep) to the next.           *)
(***************************************************************************)
EXTENDS Integers, Sequences, FiniteSets, TLC

\* ---------------------------------------------------------------- bounds

\* The tree holds at most MaxFiles files.
MaxFiles == 2
\* The endpoint makes at most MaxFailures send attempts fail.
MaxFailures == 2

\* A line of the one-line files has at most MaxLineLen characters before its
\* line end.
MaxLineLen == 4

\* ------------------------------------------------------------- constants

RECONNECT_DELAY_SECONDS == 5
batch_size == 100

\* ----------------------------------------------------------------- state

VARIABLES
    pc,               \* where main is: Start, Scanning, Processing, Sending,
                      \* RetryWait, Done
    root_is_dir,      \* os.path.isdir(log_folder_path)
    tree,             \* the files under the root, in os.walk order
    all_files,        \* main: the collected paths (indexes into tree)
    processed_count,  \* main: files processed so far
    data_to_send,     \* main: the records of the files processed so far
    success,          \* main: the last result of send_to_logstash
    slept,            \* seconds spent in time.sleep
    data_list,        \* send_to_logstash: its argument, <<>> outside a call
    total_to_send,    \* send_to_logstash: len(data_list)
    sent_count,       \* send_to_logstash: the count it reports
    i,                \* send_to_logstash: the offset of the current batch
    sock,             \* send_to_logstash: the connection it holds, 0 for none
    conn_attempts,    \* the network: create_connection calls so far
    open_conns,       \* the network: the connections now open
    wire,             \* the network: every sendall, with the call that made
                      \* it, the connection it went to, the buffer, and
                      \* whether the buffer was delivered or sendall raised
    calls             \* history: per send_to_logstash call, the connection
                      \* it asked for (0 for none), whether the endpoint
                      \* accepted it, the call's result, and the count of
                      \* its "Successfully sent" line (-1: no such line)

main_vars == <<root_is_dir, tree, all_files, processed_count, data_to_send>>
call_vars == <<data_list, total_to_send, sent_count, i, sock>>
net_vars == <<conn_attempts, open_conns, wire>>

vars == <<pc, main_vars, success, slept, call_vars, net_vars, calls>>

\* ---------------------------------------------------------------- values

Min(a, b) == IF a < b THEN a ELSE b

\* The characters str.strip() removes.
Whitespace == {" ", "\t", "\n", "\r"}

\* Python's None, and the truth value of a parser result: None is false, a
\* dict with a key is true.
None == [none |-> TRUE]
Truthy(v) == v # None

\* A Python str, and a value json.dumps refuses with a TypeError (a set).
PyStr(s) == [t |-> "str", v |-> s]
PySet == [t |-> "set", v |-> <<>>]

\* ------------------------------------------------------------ log_parser

RECURSIVE lstrip(_)
lstrip(s) ==
    IF s # <<>> /\ Head(s) \in Whitespace THEN lstrip(Tail(s)) ELSE s

RECURSIVE rstrip(_)
rstrip(s) ==
    IF s # <<>> /\ s[Len(s)] \in Whitespace
    THEN rstrip(SubSeq(s, 1, Len(s) - 1))
    ELSE s

\* Mutant: only the leading whitespace is removed.
strip_left_only(s) == lstrip(s)

strip(s) == rstrip(lstrip(s))

log_parser(line) ==
    LET stripped_line == strip(line)
    IN IF stripped_line # <<>>
       THEN [raw_content |-> PyStr(stripped_line)]
       ELSE None

\* ------------------------------------------------------ process_log_file

\* A file of the tree: its lines as iteration yields them (each with its line
\* end, the last one possibly without), and fail_at: -1 when reading never
\* fails, else the number of lines yielded before open() or the read raises
\* (0: the file cannot be opened).
File(lines, fail_at) == [lines |-> lines, fail_at |-> fail_at]

\* The lines the loop body sees before the with block ends or raises.
LinesRead(f) ==
    IF f.fail_at < 0
    THEN f.lines
    ELSE SubSeq(f.lines, 1, Min(f.fail_at, Len(f.lines)))

\* processed_data after all of `lines`: the records of the lines the parser
\* does not skip, in line order.
ParseLines(lines) ==
    SelectSeq([k \in 1..Len(lines) |-> log_parser(lines[k])], Truthy)

\* The except clauses only print: what was appended before the error is
\* returned.
process_log_file(f) == ParseLines(LinesRead(f))

\* ------------------------------------------------------------- the input

Digit == <<"0", "1", "2", "3", "4", "5", "6", "7", "8", "9">>

RECURSIVE Decimal(_)
Decimal(n) ==
    IF n < 10
    THEN <<Digit[n + 1]>>
    ELSE Append(Decimal(n \div 10), Digit[(n % 10) + 1])

\* A file of n numbered lines, each indented and ended by a newline.
NumberedLines(n) == [k \in 1..n |-> <<" ">> \o Decimal(k) \o <<"\n">>]

LongLen == batch_size + 1

FilePool ==
    { File(<< <<"f", "o", "o", "\n">>,
              <<"\n">>,
              <<" ", " ", "b", "a", "r", " ", " ", "\n">> >>, -1),
      File(<< <<"b", "a", "z">> >>, -1),
      File(<< <<"\n">>, <<" ", "\t", " ", "\n">> >>, -1),
      File(<< <<"s", "a", "y", " ", "\"", "h", "i", "\"", "\n">>,
              <<"c", ":", "\\", "x", "\n">> >>, 1),
      File(<< <<"g", "o", "n", "e", "\n">> >>, 0),
      File(NumberedLines(LongLen), -1) }

RECURSIVE SeqsUpTo(_, _)
SeqsUpTo(S, n) ==
    IF n = 0
    THEN {<<>>}
    ELSE LET shorter == SeqsUpTo(S, n - 1)
         IN shorter \cup {Append(s, x) : s \in shorter, x \in S}

\* ------------------------------------------------------ send_to_logstash

\* json.dumps raises TypeError for a value that is no JSON type.
CanDump(data) == data.raw_content.t = "str"

\* The JSON escape of one character of a string.
JsonChar(c) ==
    CASE c = "\"" -> <<"\\", "\"">>
      [] c = "\\" -> <<"\\", "\\">>
      [] c = "\t" -> <<"\\", "t">>
      [] OTHER -> <<c>>

\* The JSON escapes of the n characters of s from s[first] on, in order.
\* (The two halves are joined inside a set constructor, which binds `half` to
\* a value: TLC evaluates it once, where an operator argument is evaluated at
\* every use.  Flatten below does the same.)
RECURSIVE json_escape(_, _, _)
json_escape(s, first, n) ==
    IF n = 0
    THEN <<>>
    ELSE IF n = 1
         THEN JsonChar(s[first])
         ELSE CHOOSE both \in
                  { json_escape(s, first, half)
                      \o json_escape(s, first + half, n - half) :
                    half \in {n \div 2} } : TRUE

\* json.dumps of a dict with the one key raw_content and a str value.  The
\* opening '{"raw_content": "' and the closing '"}' are one element each.
json_dumps(data) ==
    <<"{\"raw_content\": \"">>
    \o json_escape(data.raw_content.v, 1, Len(data.raw_content.v))
    \o <<"\"}">>

\* Mutant: the slice stops one record short of the batch size.
batch_slice_short(data, start) ==
    SubSeq(data, start + 1, Min(start + batch_size - 1, Len(data)))

\* data_list[start:start + batch_size], data_list counted from 0 as Python
\* does.
batch_slice(data, start) ==
    SubSeq(data, start + 1, Min(start + batch_size, Len(data)))

\* The concatenation of the n texts of ss from ss[first] on, in order.
RECURSIVE FlattenRange(_, _, _)
FlattenRange(ss, first, n) ==
    IF n = 0
    THEN <<>>
    ELSE IF n = 1
         THEN ss[first]
         ELSE CHOOSE both \in
                  { FlattenRange(ss, first, half)
                      \o FlattenRange(ss, first + half, n - half) :
                    half \in {n \div 2} } : TRUE

Flatten(ss) ==
    CHOOSE all \in {FlattenRange(texts, 1, Len(texts)) : texts \in {ss}} : TRUE

\* Mutant: a record that does not serialize empties the whole batch.
batch_str_of_aborting(batch) ==
    IF \A k \in 1..Len(batch) : CanDump(batch[k])
    THEN Flatten([k \in 1..Len(batch) |-> json_dumps(batch[k]) \o <<"\n">>])
    ELSE <<>>

\* batch_str after the inner loop: the line of every record that serializes,
\* in batch order; a record that raises is skipped.
batch_str_of(batch) ==
    Flatten([k \in 1..Len(batch) |->
               IF CanDump(batch[k])
               THEN json_dumps(batch[k]) \o <<"\n">>
               ELSE <<>>])

\* Mutant: an empty list is sent like any other.
nothing_to_send_never(list) == FALSE

\* `not data_list`, line 29: the list is empty.
nothing_to_send(list) == list = <<>>

\* Mutant: the loop steps over every other batch.
range_next_skipping(offset) == offset + batch_size + batch_size

\* Mutant: the loop starts at the second batch.
range_start_second == batch_size

\* range(0, total_to_send, batch_size): the first offset and the step.
range_start == 0
range_next(offset) == offset + batch_size

\* Mutant: a retry is given only the records no earlier attempt delivered.
send_argument_unsent(data) ==
    LET done == Len(SelectSeq(wire, LAMBDA e : e.delivered)) * batch_size
    IN SubSeq(data, Min(done, Len(data) - 1) + 1, Len(data))

\* The argument main passes as data_list.
send_argument(data) == data

\* Mutant: a connection once made is kept and used again.
create_connection_cached(attempts) == IF attempts = 0 THEN 1 ELSE attempts

\* socket.create_connection: every call is one more connection attempt, and
\* an accepted one is a connection no earlier call opened.
create_connection(attempts) == attempts + 1

\* Mutant: the socket is left open.
with_exit_leaking(open, s) == open

\* Leaving the with block closes the socket.
with_exit(open, s) == open \ {s}

\* Mutants: a refused connection is not caught; a write error returns True.
connect_error_raised == "raised"
send_error_returns_true == "success"

\* How a call ends: it returns True ("success"), returns False ("failure"),
\* or lets an exception out ("raised").  The except clauses of lines 61-64 and
\* 69-71 return False; the end of the loop returns True.
connect_error_outcome == "failure"
send_error_outcome == "failure"
send_complete_outcome == "success"

\* Mutants: main gives up when a retry fails too; main makes one
\* attempt only.
after_attempt_capped(outcome) ==
    IF outcome = "success" \/ slept > 0 THEN "Done" ELSE "RetryWait"
after_attempt_once(outcome) == "Done"

\* main's while loop after the call: done on True, sleep and go round on
\* False; main catches nothing, so an exception would end the process.
after_attempt(outcome) ==
    CASE outcome = "success" -> "Done"
      [] outcome = "failure" -> "RetryWait"
      [] OTHER -> "Crashed"

\* Mutant: the retry does not wait.
sleep_skipped(seconds_slept) == seconds_slept

\* time.sleep(RECONNECT_DELAY_SECONDS).
sleep(seconds_slept) == seconds_slept + RECONNECT_DELAY_SECONDS

\* Every line of at most MaxLineLen blanks, tabs and letters, with a line end
\* or (the last line of a file) without; iteration yields no empty line.
LineChars == {" ", "\t", "x"}
LinePool ==
    { body \o ending :
        body \in SeqsUpTo(LineChars, MaxLineLen),
        ending \in {<<>>, <<"\n">>} } \ {<<>>}

\* The lists send_to_logstash is called with when the caller is not main:
\* any list of dicts.  An item serializes (a str value) or makes json.dumps
\* raise TypeError (a set value).
GoodItem(n) == [raw_content |-> PyStr(Decimal(n))]
BadItem == [raw_content |-> PySet]
Items(n, bad) == [k \in 1..n |-> IF k \in bad THEN BadItem ELSE GoodItem(k)]

ListPool ==
    { <<>>,
      Items(1, {}),
      Items(1, {1}),
      Items(3, {2}),
      Items(3, {1, 3}),
      Items(3, {1, 2, 3}),
      Items(batch_size + 1, {}),
      Items(batch_size + 1, 1..batch_size),
      Items(batch_size + 1, {batch_size + 1}),
      Items(batch_size + 2, {1, batch_size + 2}),
      Items(2 * batch_size + 1, (batch_size + 1)..(2 * batch_size)),
      Items(2 * batch_size + 1, {2} \cup {2 * batch_size}) }

\* ------------------------------------------------------------------ init

\* The calls that did not succeed so far.
Failures ==
    Cardinality({k \in 1..Len(calls) :
                   calls[k].result \notin {"running", "success"}})

Init ==
    /\ pc = "Start"
    /\ root_is_dir \in BOOLEAN
    /\ tree \in SeqsUpTo(FilePool, MaxFiles)
    /\ (~root_is_dir => tree = <<>>)
    /\ all_files = <<>>
    /\ processed_count = 0
    /\ data_to_send = <<>>
    /\ success = FALSE
    /\ slept = 0
    /\ data_list = <<>>
    /\ total_to_send = 0
    /\ sent_count = 0
    /\ i = 0
    /\ sock = 0
    /\ conn_attempts = 0
    /\ open_conns = {}
    /\ wire = <<>>
    /\ calls = <<>>

\* ------------------------------------------------------------------ main

\* Mutant: the root is not looked at.
after_isdir_ignored(is_dir) == "Scanning"

\* main, lines 119-122: where main goes after os.path.isdir.
after_isdir(is_dir) == IF is_dir THEN "Scanning" ELSE "Done"

\* Mutant: the loop stops after the first file.
files_left_first_only(count, files) == count < Min(1, Len(files))

\* main, line 146: the for loop over all_files has files left.
files_left(count, files) == count < Len(files)

\* Mutant: the records of a file are put before those already there.
extend_in_front(data, records) == records \o data

\* main, line 147: data_to_send.extend(file_data).
extend(data, records) == data \o records

\* Mutant: the records are sent whether there are any or not.
no_data_ignored(data) == FALSE

\* main, line 160: `not data_to_send`.
no_data(data) == data = <<>>

\* main, lines 119-124: the root must be a directory.
CheckRoot ==
    /\ pc = "Start"
    /\ pc' = after_isdir(root_is_dir)
    /\ UNCHANGED <<main_vars, success, slept, call_vars, net_vars, calls>>

\* main, lines 125-143: os.walk collects every file; none found ends the run.
Scan ==
    /\ pc = "Scanning"
    /\ all_files' = [k \in 1..Len(tree) |-> k]
    /\ pc' = IF all_files' = <<>> THEN "Done" ELSE "Processing"
    /\ UNCHANGED <<root_is_dir, tree, processed_count, data_to_send, success,
                   slept, call_vars, net_vars, calls>>

\* main, lines 146-153: one iteration of the processing loop.
ProcessFile ==
    /\ pc = "Processing"
    /\ files_left(processed_count, all_files)
    /\ LET log_file == all_files[processed_count + 1]
       IN data_to_send' = extend(data_to_send, process_log_file(tree[log_file]))
    /\ processed_count' = processed_count + 1
    /\ UNCHANGED <<pc, root_is_dir, tree, all_files, success, slept,
                   call_vars, net_vars, calls>>

\* main, lines 156-167: the loop is over; no record ends the run.
FinishProcessing ==
    /\ pc = "Processing"
    /\ ~files_left(processed_count, all_files)
    /\ pc' = IF no_data(data_to_send) THEN "Done" ELSE "Sending"
    /\ success' = FALSE
    /\ UNCHANGED <<main_vars, slept, call_vars, net_vars, calls>>

\* send_to_logstash ends with `outcome`: the with block, if entered, closes
\* the socket, the locals are gone, and main's loop (lines 168-174) goes on.
Return(outcome) ==
    /\ open_conns' = IF sock = 0 THEN open_conns ELSE with_exit(open_conns, sock)
    /\ data_list' = <<>>
    /\ total_to_send' = 0
    /\ sent_count' = 0
    /\ i' = 0
    /\ sock' = 0
    /\ success' = (outcome = "success")
    /\ pc' = after_attempt(outcome)

\* main, line 169, and send_to_logstash, lines 29-37 and 69-71: the call, and
\* create_connection, which the endpoint accepts or fails.
Connect(accepted) ==
    /\ pc = "Sending"
    /\ sock = 0
    /\ LET arg == send_argument(data_to_send)
       IN IF nothing_to_send(arg)
          THEN /\ accepted
               /\ Return("success")
               /\ calls' = Append(calls, [conn |-> 0, connected |-> FALSE,
                                          result |-> "success",
                                          reported |-> -1])
               /\ UNCHANGED <<conn_attempts, wire>>
          ELSE /\ conn_attempts' = create_connection(conn_attempts)
               /\ IF accepted
                  THEN /\ sock' = conn_attempts'
                       /\ open_conns' = open_conns \cup {conn_attempts'}
                       /\ data_list' = arg
                       /\ total_to_send' = Len(arg)
                       /\ sent_count' = 0
                       /\ i' = range_start
                       /\ calls' = Append(calls, [conn |-> conn_attempts',
                                                  connected |-> TRUE,
                                                  result |-> "running",
                                                  reported |-> -1])
                       /\ UNCHANGED <<pc, success, wire>>
                  ELSE /\ Failures < MaxFailures
                       /\ Return(connect_error_outcome)
                       /\ calls' = Append(calls, [conn |-> conn_attempts',
                                                  connected |-> FALSE,
                                                  result |-> connect_error_outcome,
                                                  reported |-> -1])
                       /\ UNCHANGED wire
    /\ UNCHANGED <<main_vars, slept>>

\* send_to_logstash, lines 41-64: one iteration of the batch loop; sendall
\* delivers the whole buffer or raises socket.error.  json.dumps leaves only
\* ASCII in batch_str, so encode('utf-8') makes one byte of each character and
\* the buffer is written here as batch_str itself.
SendBatch(delivered) ==
    /\ pc = "Sending"
    /\ sock # 0
    /\ i < total_to_send
    /\ \E batch \in {batch_slice(data_list, i)} :
       \E batch_str \in {batch_str_of(batch)} :
       LET sendall == [call |-> Len(calls), conn |-> sock, buf |-> batch_str,
                       delivered |-> delivered]
       IN IF batch_str = <<>>
          THEN /\ delivered
               /\ i' = range_next(i)
               /\ UNCHANGED <<pc, success, data_list, total_to_send,
                              sent_count, sock, net_vars, calls>>
          ELSE /\ wire' = Append(wire, sendall)
               /\ IF delivered
                  THEN /\ sent_count' = sent_count + Len(batch)
                       /\ i' = range_next(i)
                       /\ UNCHANGED <<pc, success, data_list, total_to_send,
                                      sock, open_conns, calls>>
                  ELSE /\ Failures < MaxFailures
                       /\ Return(send_error_outcome)
                       /\ calls' = [calls EXCEPT ![Len(calls)].result =
                                      send_error_outcome]
               /\ UNCHANGED conn_attempts
    /\ UNCHANGED <<main_vars, slept>>

\* send_to_logstash, lines 66-67: the loop is over; the count is printed.
SendComplete ==
    /\ pc = "Sending"
    /\ sock # 0
    /\ i >= total_to_send
    /\ Return(send_complete_outcome)
    /\ calls' = [calls EXCEPT ![Len(calls)].result = send_complete_outcome,
                              ![Len(calls)].reported = sent_count]
    /\ UNCHANGED <<main_vars, slept, conn_attempts, wire>>

\* main, lines 172 and 168: the sleep is over, the loop goes round.
Wake ==
    /\ pc = "RetryWait"
    /\ slept' = sleep(slept)
    /\ pc' = "Sending"
    /\ UNCHANGED <<main_vars, success, call_vars, net_vars, calls>>

Next ==
    \/ CheckRoot
    \/ Scan
    \/ ProcessFile
    \/ FinishProcessing
    \/ \E accepted \in BOOLEAN : Connect(accepted)
    \/ \E delivered \in BOOLEAN : SendBatch(delivered)
    \/ SendComplete
    \/ Wake

Spec == Init /\ [][Next]_vars

\* The program never waits for ever in a blocking call: reads return, the
\* connection and the writes time out (timeout=10), the sleep ends.  The
\* endpoint fails at most MaxFailures attempts (the guards of Connect and
\* SendBatch), so it does in the end accept one attempt as a whole.
FairSpec == Spec /\ WF_vars(Next)

\* main over a tree of one file of one line, the line being any of LinePool.
ParseInit ==
    /\ pc = "Start"
    /\ root_is_dir = TRUE
    /\ tree \in { << File(<<line>>, -1) >> : line \in LinePool }
    /\ all_files = <<>>
    /\ processed_count = 0
    /\ data_to_send = <<>>
    /\ success = FALSE
    /\ slept = 0
    /\ data_list = <<>>
    /\ total_to_send = 0
    /\ sent_count = 0
    /\ i = 0
    /\ sock = 0
    /\ conn_attempts = 0
    /\ open_conns = {}
    /\ wire = <<>>
    /\ calls = <<>>

ParseSpec == ParseInit /\ [][Next]_vars

\* send_to_logstash on its own: a caller that holds any list of ListPool and
\* calls as main does, again after a delay until the call returns True.
SendInit ==
    /\ pc = "Sending"
    /\ root_is_dir = TRUE
    /\ tree = <<>>
    /\ all_files = <<>>
    /\ processed_count = 0
    /\ data_to_send \in ListPool
    /\ success = FALSE
    /\ slept = 0
    /\ data_list = <<>>
    /\ total_to_send = 0
    /\ sent_count = 0
    /\ i = 0
    /\ sock = 0
    /\ conn_attempts = 0
    /\ open_conns = {}
    /\ wire = <<>>
    /\ calls = <<>>

SendNext ==
    \/ \E accepted \in BOOLEAN : Connect(accepted)
    \/ \E delivered \in BOOLEAN : SendBatch(delivered)
    \/ SendComplete
    \/ Wake

SendSpec == SendInit /\ [][SendNext]_vars

\* ------------------------------------------------------------ properties

\* The newline-terminated serialization of `records`, record by record.
Stream(records) ==
    Flatten([k \in 1..Len(records) |-> json_dumps(records[k]) \o <<"\n">>])

\* The sendalls of call c, and those the endpoint took, in the order made.
SendallsOf(c) == SelectSeq(wire, LAMBDA e : e.call = c)
DeliveredOf(c) == SelectSeq(wire, LAMBDA e : e.call = c /\ e.delivered)
Bufs(events) == [k \in 1..Len(events) |-> events[k].buf]

\* Everything the receiver got, over all connections, in the order written.
Received == Flatten(Bufs(SelectSeq(wire, LAMBDA e : e.delivered)))

LastCall == calls[Len(calls)]
Records == Len(data_to_send)
FirstBatch == SubSeq(data_to_send, 1, Min(batch_size, Records))

\* C1: a failed attempt (refused connection, or a write failure after some
\* batches were written) puts main to sleep for the delay, after which a new
\* attempt starts; every attempt is given the whole of data_to_send, starts at
\* offset 0, its first write is the first batch, and data_to_send is never
\* changed once sending has begun.
C1_RetryResendsEverything ==
    [][ /\ (Failures' > Failures) => (pc' = "RetryWait" /\ sock' = 0)
        /\ (pc = "RetryWait") =>
              /\ pc' = "Sending"
              /\ sock' = 0
              /\ slept' = slept + RECONNECT_DELAY_SECONDS
        /\ (pc \in {"Sending", "RetryWait"}) => data_to_send' = data_to_send
        /\ (sock = 0 /\ sock' # 0) =>
              /\ data_list' = data_to_send
              /\ total_to_send' = Records
              /\ i' = 0
        /\ (sock # 0 /\ sock' # 0) => data_list' = data_list
        /\ (Len(wire') > Len(wire)) =>
              LET e == wire'[Len(wire')]
              IN (\A k \in 1..Len(wire) : wire[k].call # e.call)
                    => e.buf = Stream(FirstBatch)
      ]_vars

\* C1 witness: the first attempt failed after it had written a batch, and the
\* second attempt has written its first batch.
C1_Witness ==
    /\ Len(calls) = 2
    /\ calls[1].result = "failure"
    /\ Len(DeliveredOf(1)) >= 1
    /\ Len(DeliveredOf(2)) = 1
    /\ Records > batch_size

\* Every call so far has returned failure.
AllFailed ==
    /\ calls # <<>>
    /\ \A k \in 1..Len(calls) : calls[k].result = "failure"

\* C2: at least once.  When the run is Done after it had begun to send, one
\* attempt delivered the serialization of every record of data_to_send; and,
\* the endpoint failing finitely many attempts, the run reaches Done.
C2_AtLeastOnce ==
    /\ [](pc = "Done" /\ calls # <<>> =>
            \E c \in 1..Len(calls) :
                Flatten(Bufs(DeliveredOf(c))) = Stream(data_to_send))
    /\ <>(pc = "Done")

\* C2 witness: Done after a failed attempt that had delivered a batch, the
\* records filling more than one batch.
C2_Witness ==
    /\ pc = "Done"
    /\ Len(calls) >= 2
    /\ Len(DeliveredOf(1)) >= 1
    /\ Records > batch_size

\* C3: no attempt limit.  While every attempt has failed the run is not Done:
\* main sleeps or is about to call again; the sleep can end and the call can
\* be made, whatever the number of attempts so far; and the only step there
\* is from the sleep is to call again, the only step from there a new attempt.
C3_RetryForever ==
    /\ [](AllFailed =>
            /\ pc \in {"RetryWait", "Sending"}
            /\ sock = 0
            /\ (pc = "RetryWait" => ENABLED Wake)
            /\ (pc = "Sending" => ENABLED Connect(TRUE)))
    /\ [][ AllFailed =>
              IF pc = "RetryWait"
              THEN pc' = "Sending" /\ calls' = calls
              ELSE Len(calls') = Len(calls) + 1
         ]_vars

\* C3 witness: as many attempts failed as the endpoint may fail, and one
\* more attempt is under way.
C3_Witness ==
    /\ Len(calls) = MaxFailures + 1
    /\ \A k \in 1..MaxFailures : calls[k].result = "failure"

\* C4: Done, once sending has begun, is reached only by a call returning
\* success: in Done after an attempt the last call succeeded, and the step
\* into Done from Sending or RetryWait is a step from Sending in which the
\* call under way returns success.
C4_DoneOnlyAfterSuccess ==
    /\ [](pc = "Done" /\ calls # <<>> =>
            /\ LastCall.result = "success"
            /\ success)
    /\ [][ (pc \in {"Sending", "RetryWait"} /\ pc' = "Done") =>
              /\ pc = "Sending"
              /\ success'
              /\ calls'[Len(calls')].result = "success"
         ]_vars
    /\ [][ (pc = "RetryWait") => pc' = "Sending" ]_vars

\* C4 witness: Done after a failed and a successful attempt.
C4_Witness ==
    /\ pc = "Done"
    /\ Len(calls) = 2
    /\ calls[1].result = "failure"

\* C5: a call the endpoint accepted throughout made ceil(N / batch_size)
\* writes for its N records, the j-th write being the serialization of the
\* j-th hundred of records, so that the writes together are the serialization
\* of all N records in order.
C5_BatchesReconstruct ==
    \A c \in 1..Len(calls) :
        (calls[c].result = "success" /\ calls[c].connected) =>
            LET W == SendallsOf(c)
            IN /\ Len(W) = (Records + batch_size - 1) \div batch_size
               /\ \A j \in 1..Len(W) :
                     /\ W[j].delivered
                     /\ W[j].buf =
                          Stream(SubSeq(data_to_send,
                                        (j - 1) * batch_size + 1,
                                        Min(j * batch_size, Records)))
               /\ Flatten(Bufs(W)) = Stream(data_to_send)

\* C5 witness: a successful call for more than two batches of records.
C5_Witness ==
    /\ pc = "Done"
    /\ calls # <<>>
    /\ Records > 2 * batch_size
    /\ Len(SendallsOf(Len(calls))) = 3

\* C6: a sendall that raises is the last sendall of its call, the call has
\* returned failure in the very step of the error (the socket is given up,
\* main sleeps), and nothing written before is taken back.
C6_WriteFailureAborts ==
    /\ [](\A k \in 1..Len(wire) :
            ~wire[k].delivered =>
                /\ calls[wire[k].call].result = "failure"
                /\ \A m \in (k + 1)..Len(wire) : wire[m].call # wire[k].call)
    /\ [][ (Len(wire') > Len(wire) /\ ~wire'[Len(wire')].delivered) =>
              /\ sock' = 0
              /\ ~success'
              /\ pc' = "RetryWait"
         ]_vars
    /\ [][ Len(wire') >= Len(wire) /\ SubSeq(wire', 1, Len(wire)) = wire
         ]_vars

\* C6 witness: the second of three batches failed after the first was
\* delivered, and a later attempt has been made.
C6_Witness ==
    /\ Records > 2 * batch_size
    /\ Len(calls) >= 2
    /\ Len(SendallsOf(1)) = 2
    /\ SendallsOf(1)[1].delivered
    /\ ~SendallsOf(1)[2].delivered
    /\ Len(SendallsOf(2)) >= 1

\* C7: the connection of a call is closed when the call ends: at most one
\* connection is open, it is the one the running call holds, and none is open
\* outside Sending.
C7_ConnectionClosed ==
    /\ Cardinality(open_conns) <= 1
    /\ open_conns = IF sock = 0 THEN {} ELSE {sock}
    /\ (pc \in {"Start", "Scanning", "Processing", "RetryWait", "Done"} =>
           open_conns = {})

\* C7 witness: main sleeps after a call that had connected and then failed
\* on a write.
C7_Witness ==
    /\ pc = "RetryWait"
    /\ LastCall.connected
    /\ ~wire[Len(wire)].delivered

\* C8: one connection attempt per call, never a second one and never an
\* earlier connection: the attempts number the calls, call k asked for
\* connection k, and every sendall of a call went to that call's connection.
C8_OneConnectionPerCall ==
    /\ conn_attempts = Len(calls)
    /\ \A k \in 1..Len(calls) : calls[k].conn = k
    /\ \A k \in 1..Len(wire) :
          /\ wire[k].call \in 1..Len(calls)
          /\ wire[k].conn = calls[wire[k].call].conn
    /\ (sock # 0 => sock = LastCall.conn)

\* C8 witness: three calls, the first and the third having written.
C8_Witness ==
    /\ Len(calls) = 3
    /\ Len(SendallsOf(1)) >= 1
    /\ Len(SendallsOf(3)) >= 1

\* C9: a call whose connection attempt failed returned failure and made no
\* write; and no call lets an error out: every call that ended returned
\* success or failure, and main got that result.
C9_ConnectFailureIsFailure ==
    /\ pc # "Crashed"
    /\ \A k \in 1..Len(calls) :
          /\ calls[k].result \in {"running", "success", "failure"}
          /\ (calls[k].result = "running" => k = Len(calls) /\ sock # 0)
          /\ (calls[k].conn # 0 /\ ~calls[k].connected =>
                 /\ calls[k].result = "failure"
                 /\ SendallsOf(k) = <<>>)
    /\ (calls # <<>> /\ sock = 0 =>
           /\ LastCall.result \in {"success", "failure"}
           /\ pc \in {"RetryWait", "Sending", "Done"}
           /\ (pc # "Sending" => success = (LastCall.result = "success")))

\* C9 witness: main sleeps after a refused connection.
C9_Witness ==
    /\ pc = "RetryWait"
    /\ ~LastCall.connected
    /\ LastCall.result = "failure"
    /\ wire = <<>>

\* C10: when every failed attempt failed at the connection and the run is
\* Done, the receiver got the serialization of every record once and nothing
\* else; and main slept once per failed attempt, never after the success.
C10_RefusedThenAccepted ==
    /\ (pc = "Done" /\ calls # <<>>
          /\ \A k \in 1..(Len(calls) - 1) : ~calls[k].connected)
         => Received = Stream(data_to_send)
    /\ slept = RECONNECT_DELAY_SECONDS
                 * (Failures - IF pc = "RetryWait" THEN 1 ELSE 0)
    /\ (pc = "Done" /\ calls # <<>> => Failures = Len(calls) - 1)

\* C10 witness: the first connection refused, the second attempt accepted,
\* one delay taken.
C10_Witness ==
    /\ pc = "Done"
    /\ Len(calls) = 2
    /\ ~calls[1].connected
    /\ slept = RECONNECT_DELAY_SECONDS
    /\ Records > batch_size

\* The records of `records` that serialize, in order.
Kept(records) == SelectSeq(records, LAMBDA r : r.raw_content.t = "str")

\* The j-th batch of data_to_send, and the number of batches.
Batch(j) ==
    SubSeq(data_to_send, (j - 1) * batch_size + 1, Min(j * batch_size, Records))
Batches == (Records + batch_size - 1) \div batch_size

\* What a call that runs to its end writes: per batch that has a record that
\* serializes, the lines of its records that serialize, in order.
ExpectedWrites ==
    SelectSeq([j \in 1..Batches |-> Stream(Kept(Batch(j)))],
              LAMBDA text : text # <<>>)

NextFile == tree[all_files[processed_count + 1]]

\* C12: a file whose reading fails, at open or at any later line, adds no
\* record to data_to_send, and the loop goes on to the next file.
C12_FailedFileContributesNothing ==
    [][ (pc = "Processing" /\ processed_count < Len(all_files)
           /\ NextFile.fail_at >= 0) =>
              /\ data_to_send' = data_to_send
              /\ processed_count' = processed_count + 1
              /\ pc' = "Processing"
      ]_vars

\* C13: send_to_logstash with an empty list returns True in the step of the
\* call and asks for no connection: the attempt counter stays as it was,
\* nothing is opened or written, and the one call there is has succeeded.
C13_EmptyListNoConnection ==
    /\ [][ (pc = "Sending" /\ sock = 0 /\ data_to_send = <<>>) =>
              /\ Len(calls') = Len(calls) + 1
              /\ calls'[Len(calls')].result = "success"
              /\ success'
              /\ pc' = "Done"
              /\ conn_attempts' = conn_attempts
              /\ open_conns' = open_conns
              /\ wire' = wire
         ]_vars
    /\ [](data_to_send = <<>> =>
            /\ conn_attempts = 0
            /\ open_conns = {}
            /\ wire = <<>>
            /\ slept = 0)

\* C13 witness: the call with the empty list has returned.
C13_Witness ==
    /\ data_to_send = <<>>
    /\ Len(calls) = 1
    /\ calls[1].result = "success"
    /\ conn_attempts = 0

\* C14: a scan that finds no file, and a processing loop that ends with no
\* record, both take main to Done in one step; and as long as there is no
\* file or no record main is never in Sending or RetryWait, no call of
\* send_to_logstash and no connection attempt has been made, nothing was
\* written and main never slept.
C14_NothingToSendNoNetwork ==
    /\ [][ (pc = "Scanning" /\ tree = <<>>) => pc' = "Done" ]_vars
    /\ [][ (pc = "Processing" /\ processed_count = Len(all_files)
              /\ data_to_send = <<>>) => pc' = "Done" ]_vars
    /\ []((all_files = <<>> \/ data_to_send = <<>>) =>
            /\ pc \in {"Start", "Scanning", "Processing", "Done"}
            /\ calls = <<>>
            /\ conn_attempts = 0
            /\ open_conns = {}
            /\ wire = <<>>
            /\ slept = 0)

\* C14 witness: Done after two files were processed that gave no record.
C14_Witness ==
    /\ pc = "Done"
    /\ Len(all_files) = 2
    /\ processed_count = 2
    /\ data_to_send = <<>>

\* A line without its leading and trailing whitespace: what lies between its
\* first and its last character that is no whitespace.
Trimmed(line) ==
    LET inner == {k \in 1..Len(line) : line[k] \notin Whitespace}
    IN IF inner = {}
       THEN <<>>
       ELSE SubSeq(line,
                   CHOOSE k \in inner : \A m \in inner : k <= m,
                   CHOOSE k \in inner : \A m \in inner : m <= k)

\* The records of the lines of a file that were read: one per line that is
\* not blank, holding the line trimmed, in line order.
RecordsOfLines(lines) ==
    Flatten([k \in 1..Len(lines) |->
               IF Trimmed(lines[k]) = <<>>
               THEN <<>>
               ELSE << [raw_content |-> PyStr(Trimmed(lines[k]))] >>])

\* The records of the first n files of all_files, file after file.
RecordsOfFiles(n) ==
    Flatten([k \in 1..n |-> RecordsOfLines(LinesRead(tree[all_files[k]]))])

\* C15: data_to_send is the records of the files processed so far, file
\* after file in the order of all_files, each file giving the trimmed
\* non-blank lines read from it in line order (all of its lines when reading
\* did not fail); all_files is in the order the walk yields.  This holds all
\* through the processing loop and when main turns to sending; from then on
\* data_to_send is not changed, and the list a call of send_to_logstash is
\* given is the whole of it.
C15_ConcatenationInOrder ==
    /\ []((pc = "Processing" \/ (pc = "Sending" /\ calls = <<>>)) =>
            /\ all_files = [k \in 1..Len(tree) |-> k]
            /\ data_to_send = RecordsOfFiles(processed_count)
            /\ \A k \in 1..processed_count :
                  tree[all_files[k]].fail_at < 0 =>
                      LinesRead(tree[all_files[k]]) = tree[all_files[k]].lines)
    /\ [](pc \in {"Start", "Scanning"} => data_to_send = <<>>)
    /\ [][ (pc # "Processing") =>
              /\ data_to_send' = data_to_send
              /\ processed_count' = processed_count
              /\ all_files' = IF pc = "Scanning"
                              THEN [k \in 1..Len(tree) |-> k]
                              ELSE all_files
         ]_vars
    /\ [][ (sock = 0 /\ sock' # 0) =>
              /\ processed_count = Len(all_files)
              /\ data_list' = data_to_send
         ]_vars

\* C15 witness: two files with records of their own, and a blank line
\* between two of the first file's, are with the sender.
C15_Witness ==
    /\ sock # 0
    /\ Len(all_files) = 2
    /\ tree[1] # tree[2]
    /\ Len(RecordsOfLines(tree[1].lines)) = 2
    /\ Len(tree[1].lines) = 3
    /\ RecordsOfLines(tree[2].lines) # <<>>
    /\ tree[2].fail_at < 0

\* C16: reading comes before sending.  Whenever a call of send_to_logstash
\* or a connection attempt has been made, or main is in Sending or RetryWait,
\* every collected file has been processed; the step that makes the first
\* call starts from there; and from Sending on no file is read: the count of
\* processed files and the records stay as they are.
C16_ProcessAllBeforeSending ==
    /\ []((calls # <<>> \/ conn_attempts > 0 \/ wire # <<>>
             \/ pc \in {"Sending", "RetryWait"}) =>
            /\ processed_count = Len(all_files)
            /\ all_files = [k \in 1..Len(tree) |-> k])
    /\ [][ (calls = <<>> /\ calls' # <<>>) =>
              /\ pc = "Sending"
              /\ processed_count = Len(all_files)
         ]_vars
    /\ [][ (pc \in {"Sending", "RetryWait"}) =>
              /\ pc' \in {"Sending", "RetryWait", "Done"}
              /\ processed_count' = processed_count
              /\ data_to_send' = data_to_send
         ]_vars

\* C16 witness: a retry is under way for the records of two files.
C16_Witness ==
    /\ Len(calls) = 2
    /\ sock # 0
    /\ Len(all_files) = 2
    /\ processed_count = 2

\* Every line of every file of the tree.
LinesOfTree == UNION { {f.lines[k] : k \in 1..Len(f.lines)} :
                       f \in {tree[n] : n \in 1..Len(tree)} }

\* C17: log_parser returns None exactly for the lines that are empty once
\* trimmed; for any other line it returns the record of the trimmed line, and
\* log_parser of that record's content is the same record.  So the records
\* main has gathered from the file are just that, and none of them has an
\* empty content or one that begins or ends with whitespace.
C17_ParseSkipsExactlyBlankLines ==
    /\ \A line \in LinesOfTree :
          /\ (log_parser(line) = None) <=> (Trimmed(line) = <<>>)
          /\ (log_parser(line) # None =>
                 /\ log_parser(line) = [raw_content |-> PyStr(Trimmed(line))]
                 /\ log_parser(log_parser(line).raw_content.v)
                      = log_parser(line))
    /\ (processed_count = Len(tree) =>
           data_to_send = RecordsOfFiles(processed_count))
    /\ \A k \in 1..Len(data_to_send) :
          LET content == data_to_send[k].raw_content.v
          IN /\ content # <<>>
             /\ content[1] \notin Whitespace
             /\ content[Len(content)] \notin Whitespace

\* C17 witness: a line with whitespace on both sides of a blank between two
\* letters gave one record, which was sent.
C17_Witness ==
    /\ pc = "Done"
    /\ \E line \in LinesOfTree :
          /\ line[1] \in Whitespace
          /\ line[Len(line)] \in Whitespace
          /\ \E k \in 1..Len(Trimmed(line)) : Trimmed(line)[k] \in Whitespace
    /\ Len(data_to_send) = 1

\* C18: when the root is no directory the first step of main is its last:
\* main goes from Start to Done, never to Scanning or Processing, nothing is
\* collected, no file is processed, send_to_logstash is not called and no
\* connection is attempted.
C18_MissingRootEndsRun ==
    /\ [][ (~root_is_dir /\ pc = "Start") => pc' = "Done" ]_vars
    /\ [](~root_is_dir =>
            /\ pc \in {"Start", "Done"}
            /\ all_files = <<>>
            /\ processed_count = 0
            /\ data_to_send = <<>>
            /\ calls = <<>>
            /\ conn_attempts = 0
            /\ open_conns = {}
            /\ wire = <<>>)

\* C18 witness: the run is over for a root that is no directory.
C18_Witness ==
    /\ ~root_is_dir
    /\ pc = "Done"

\* The serialization of the first n batches of data_to_send.
StreamPrefix(n) == Stream(SubSeq(data_to_send, 1, Min(n * batch_size, Records)))

\* C19: the writes on the wire are those of the first attempt, then those of
\* the second, and so on.  The k-th buffer an attempt hands to the socket is
\* the whole k-th batch of data_to_send; so when an attempt ends, what it
\* delivered is the serialization of the first so many whole batches.  In a
\* failed attempt every write but the last was delivered and the last one
\* raised (none at all when the connection was refused); a successful attempt
\* delivered every batch, the whole stream; and when the run is Done the last
\* attempt is the successful one, all before it failed.  Hence batch j went
\* to the socket once in every attempt that reached it.
C19_AttemptsWriteWholeBatchPrefixes ==
    /\ [][ (wire' # wire) =>
              LET e == wire'[Len(wire')]
                  k == Cardinality({m \in 1..Len(wire') :
                                      wire'[m].call = e.call})
              IN /\ wire' = Append(wire, e)
                 /\ e.call = Len(calls)
                 /\ k <= Batches
                 /\ e.buf = Stream(Batch(k))
         ]_vars
    /\ [][ (sock # 0 /\ sock' = 0) =>
              LET D == SelectSeq(wire', LAMBDA e : e.call = Len(calls)
                                                    /\ e.delivered)
              IN Flatten(Bufs(D)) = StreamPrefix(Len(D))
         ]_vars
    /\ [](\A c \in 1..Len(calls) :
            LET W == SendallsOf(c)
                D == DeliveredOf(c)
            IN /\ \A k \in 1..(Len(W) - 1) : W[k].delivered
               /\ (calls[c].result = "failure" =>
                      /\ Len(D) = IF W = <<>> THEN 0 ELSE Len(W) - 1
                      /\ (W = <<>> => ~calls[c].connected))
               /\ (calls[c].result = "success" => Len(D) = Batches))
    /\ [](pc = "Done" /\ calls # <<>> =>
            /\ LastCall.result = "success"
            /\ \A c \in 1..(Len(calls) - 1) : calls[c].result = "failure")

\* C19 witness: three batches of records; the first attempt delivered one
\* batch and failed on the second, the second attempt was refused, the third
\* delivered all three.
C19_Witness ==
    /\ pc = "Done"
    /\ Batches = 3
    /\ Len(calls) = 3
    /\ Len(DeliveredOf(1)) = 1
    /\ Len(SendallsOf(1)) = 2
    /\ ~calls[2].connected
    /\ Len(DeliveredOf(3)) = 3

\* The records call c wrote: the lines, each ended by its newline, of the
\* buffers of c that were delivered.
LinesWritten(c) ==
    Len(SelectSeq(Flatten(Bufs(DeliveredOf(c))), LAMBDA ch : ch = "\n"))

\* C20: the count of the "Successfully sent" line of a call that returned
\* True is the number of records whose lines the call wrote, records that
\* did not serialize and were skipped not being counted.
C20_ReportedCountIsWrittenCount ==
    \A c \in 1..Len(calls) :
        (calls[c].result = "success" /\ calls[c].connected) =>
            calls[c].reported = LinesWritten(c)

====
